---- MODULE Spec2Model ----
(***************************************************************************)
(* Model of the stm32f3discovery hardware abstraction layer:               *)
(*   - serial.rs : Serial::read_exact / write_all (DMA transfer arbiter),  *)
(*                 hal::Serial read / write (non-blocking polling)         *)
(*   - spi.rs    : hal::Spi read / send                                    *)
(*   - timer.rs  : Timer<Tim7> and Timer<T: TIM> (Tim2, Tim3, Tim4)        *)
(* The peripheral handles carry no state: all state is the registers they  *)
(* address, the lock state of the transfer buffers and the position of the *)
(* foreground call that an interrupt handler may preempt.                  *)
(***************************************************************************)
EXTENDS Integers, FiniteSets, Sequences, TLC

(***************************************************************************)
(* Bounds of the model and constants of the program.                       *)
(***************************************************************************)

\* Largest value of the 16-bit transfer count / prescaler / reload fields.
U16Max == 65535

\* The DMA transfer counter is observed at 0..MaxBeat once a transfer runs.
MaxBeat == 1

\* At most this many buffers are borrowed by the CPU at the same time.
MaxCpuBorrows == 1

(***************************************************************************)
(* Serial DMA transfer arbiter (serial.rs, impl Serial<Usart1>).           *)
(***************************************************************************)

VARIABLES
    dma1,       \* DMA1 registers of channel 4 (TX) and channel 5 (RX)
    buffers,    \* lock state of every transfer buffer
    fg,         \* the foreground call in progress: its position and arguments
    last,       \* the call that returned (or aborted) most recently
    busyWrite   \* channels whose count/address registers were written while enabled

dmaVars == <<dma1, buffers, fg, last, busyWrite>>

VARIABLES
    port,       \* the peripheral the firmware polls: "usart" or "spi"
    usart,      \* USART status flags and data registers
    spi1,       \* SPI1 status flags and data register
    ioLast      \* the read / write / send call that returned most recently

ioVars == <<port, usart, spi1, ioLast>>

VARIABLES
    timer,      \* the instance the Timer handle wraps: Tim7, Tim2, Tim3 or Tim4
    tim,        \* that timer's registers and its clock-enable bit
    timLast,    \* the timer call that returned (or aborted) most recently
    runOp       \* the most recent of init / pause / resume that returned

timVars == <<timer, tim, timLast, runOp>>

VARIABLES
    rcc,        \* clock gates of the reset and clock control block
    gpioa,      \* mode and alternate function of the port A pins
    uctl,       \* control and baud-rate registers of USART1 and USART2
    spictl,     \* control registers of SPI1
    cfgLast     \* the init / listen / unlisten call that returned most recently

cfgVars == <<rcc, gpioa, uctl, spictl, cfgLast>>

vars == <<dmaVars, ioVars, timVars, cfgVars>>

\* Dma1Channel4 carries the transmit direction, Dma1Channel5 the receive one.
Channels == {4, 5}

\* Lengths of the buffers the callers own (B: Unsize<[u8]>).
BufLens == {1, U16Max, U16Max + 1}

\* A Buffer<B, CHANNEL> is typed by its channel; one buffer per channel and
\* length, identified with its base address.
Bufs == [ch : Channels, len : BufLens]

NullBuf == [ch |-> 0, len |-> 0]

DmaOps == {"read_exact", "write_all"}

\* Both directions on the registers of channel 4.
ChannelOfShared(op) == 4

\* read_exact works on ccr5/cndtr5/cpar5/cmar5, write_all on the registers of
\* channel 4.
ChannelOf(op) == IF op = "read_exact" THEN 5 ELSE 4

\* The data registers of the two directions exchanged.
PeriphAddrSwapped(op) == IF op = "read_exact" THEN "usart1.tdr" ELSE "usart1.rdr"

\* The peripheral-side address: the USART data register of the direction.
PeriphAddr(op) == IF op = "read_exact" THEN "usart1.rdr" ELSE "usart1.tdr"

\* The channel configuration register at reset.
CcrReset ==
    [mem2mem |-> 0, pl |-> 0, msize |-> 0, psize |-> 0, minc |-> 0,
     circ |-> 0, pinc |-> 0, dir |-> 0, tcie |-> 0, en |-> 0]

ChannelReset ==
    [ccr |-> CcrReset, cndtr |-> 0, cpar |-> "0", cmar |-> NullBuf, tcif |-> 0]

NoCall == [who |-> "none", op |-> "none", buf |-> NullBuf, res |-> "none"]

FgIdle == [pc |-> "idle", op |-> "none", buf |-> NullBuf]

\* A panic (a failed assertion or unwrap) aborts the program.
Panicked == last.res \in {"PanicLock", "PanicU16"}

\* A busy check that reads the enable bit of the other direction's channel.
InUseOtherChannel(d, op) == d[IF ChannelOf(op) = 5 THEN 4 ELSE 5].ccr.en = 1

\* `if dma1.ccrN.read().en().bits() == 1 { return Err(dma::Error::InUse) }`
InUse(d, op) == d[ChannelOf(op)].ccr.en = 1

\* A truncating conversion (`len as u16`) in place of the checked one.
u16Wrapping(n) == n % (U16Max + 1)

\* cast::u16(usize): the checked conversion; -1 stands for Err(Overflow),
\* on which unwrap panics.
u16(n) == IF n <= U16Max THEN n ELSE -1

\* lock_mut (receive) and lock (transmit) take the buffer for the DMA engine.
LockState(op) == IF op = "read_exact" THEN "MutLocked" ELSE "Locked"

\* The lock can be taken on an unlocked, unborrowed buffer only.
CanLock(bs, b) == bs[b] = "Unlocked"

\* A transfer started without taking the buffer's lock.
LockBufferSkipped(bs, op, b) == bs

\* `let buffer = buffer.lock_mut()` / `buffer.lock()` in read_exact, write_all.
LockBuffer(bs, op, b) == [bs EXCEPT ![b] = LockState(op)]

\* A store to CNDTR, CPAR or CMAR of a disabled channel takes effect; the
\* registers must not be written while the channel is enabled, and the
\* hardware may then ignore the store or take it.
StoreOutcomes(chan, old, new) == IF chan.ccr.en = 1 THEN {old, new} ELSE {new}

NoteBusyWrite(chan, ch) == IF chan.ccr.en = 1 THEN busyWrite \cup {ch} ELSE busyWrite

Returned(who, op, b, res) == [who |-> who, op |-> op, buf |-> b, res |-> res]

(***************************************************************************)
(* A call made from interrupt context runs to completion between two steps *)
(* of the foreground: the whole of read_exact / write_all.                 *)
(***************************************************************************)
Transfer(who, op, b) ==
    LET ch == ChannelOf(op) IN
    /\ b.ch = ch
    /\ IF InUse(dma1, op)
       THEN /\ last' = Returned(who, op, b, "InUse")
            /\ UNCHANGED <<dma1, buffers>>
       ELSE IF ~CanLock(buffers, b)
       THEN /\ last' = Returned(who, op, b, "PanicLock")
            /\ UNCHANGED <<dma1, buffers>>
       ELSE IF u16(b.len) = -1
       THEN /\ buffers' = LockBuffer(buffers, op, b)
            /\ last' = Returned(who, op, b, "PanicU16")
            /\ UNCHANGED dma1
       ELSE /\ buffers' = LockBuffer(buffers, op, b)
            /\ dma1' = [dma1 EXCEPT ![ch].cndtr = u16(b.len),
                                    ![ch].cpar = PeriphAddr(op),
                                    ![ch].cmar = b,
                                    ![ch].ccr.en = 1]
            /\ last' = Returned(who, op, b, "Ok")

IsrReadExact(b) ==
    /\ ~Panicked
    /\ Transfer("isr", "read_exact", b)
    /\ UNCHANGED <<fg, busyWrite, ioVars, timVars, cfgVars>>

IsrWriteAll(b) ==
    /\ ~Panicked
    /\ Transfer("isr", "write_all", b)
    /\ UNCHANGED <<fg, busyWrite, ioVars, timVars, cfgVars>>

(***************************************************************************)
(* The same call made by the foreground, one step per register access, so  *)
(* that an interrupt handler may run between any two of them.              *)
(***************************************************************************)

\* The busy check: return InUse at once, or go on to lock the buffer.
FgCheck(op, b) ==
    /\ ~Panicked
    /\ fg.pc = "idle"
    /\ b.ch = ChannelOf(op)
    /\ buffers[b] # "Cpu"
    /\ IF InUse(dma1, op)
       THEN /\ last' = Returned("fg", op, b, "InUse")
            /\ UNCHANGED fg
       ELSE /\ fg' = [pc |-> "lock", op |-> op, buf |-> b]
            /\ UNCHANGED last
    /\ UNCHANGED <<dma1, buffers, busyWrite, ioVars, timVars, cfgVars>>

\* buffer.lock_mut() / buffer.lock()
FgLock ==
    /\ ~Panicked
    /\ fg.pc = "lock"
    /\ IF CanLock(buffers, fg.buf)
       THEN /\ buffers' = LockBuffer(buffers, fg.op, fg.buf)
            /\ fg' = [fg EXCEPT !.pc = "cndtr"]
            /\ UNCHANGED last
       ELSE /\ last' = Returned("fg", fg.op, fg.buf, "PanicLock")
            /\ UNCHANGED <<buffers, fg>>
    /\ UNCHANGED <<dma1, busyWrite, ioVars, timVars, cfgVars>>

\* dma1.cndtrN.write(|w| w.ndt().bits(u16(buffer.len()).unwrap()))
FgWriteCndtr ==
    LET ch == ChannelOf(fg.op) IN
    /\ ~Panicked
    /\ fg.pc = "cndtr"
    /\ IF u16(fg.buf.len) = -1
       THEN /\ last' = Returned("fg", fg.op, fg.buf, "PanicU16")
            /\ UNCHANGED <<dma1, fg, busyWrite>>
       ELSE /\ \E v \in StoreOutcomes(dma1[ch], dma1[ch].cndtr, u16(fg.buf.len)) :
                   dma1' = [dma1 EXCEPT ![ch].cndtr = v]
            /\ busyWrite' = NoteBusyWrite(dma1[ch], ch)
            /\ fg' = [fg EXCEPT !.pc = "cpar"]
            /\ UNCHANGED last
    /\ UNCHANGED <<buffers, ioVars, timVars, cfgVars>>

\* dma1.cparN.write(|w| w.bits(&usart1.rdr / &usart1.tdr as u32))
FgWriteCpar ==
    LET ch == ChannelOf(fg.op) IN
    /\ ~Panicked
    /\ fg.pc = "cpar"
    /\ \E v \in StoreOutcomes(dma1[ch], dma1[ch].cpar, PeriphAddr(fg.op)) :
           dma1' = [dma1 EXCEPT ![ch].cpar = v]
    /\ busyWrite' = NoteBusyWrite(dma1[ch], ch)
    /\ fg' = [fg EXCEPT !.pc = "cmar"]
    /\ UNCHANGED <<buffers, last, ioVars, timVars, cfgVars>>

\* dma1.cmarN.write(|w| w.bits(buffer.as_ptr() as u32))
FgWriteCmar ==
    LET ch == ChannelOf(fg.op) IN
    /\ ~Panicked
    /\ fg.pc = "cmar"
    /\ \E v \in StoreOutcomes(dma1[ch], dma1[ch].cmar, fg.buf) :
           dma1' = [dma1 EXCEPT ![ch].cmar = v]
    /\ busyWrite' = NoteBusyWrite(dma1[ch], ch)
    /\ fg' = [fg EXCEPT !.pc = "en"]
    /\ UNCHANGED <<buffers, last, ioVars, timVars, cfgVars>>

\* dma1.ccrN.modify(|_, w| w.en().bits(1)); Ok(())
FgEnable ==
    LET ch == ChannelOf(fg.op) IN
    /\ ~Panicked
    /\ fg.pc = "en"
    /\ dma1' = [dma1 EXCEPT ![ch].ccr.en = 1]
    /\ last' = Returned("fg", fg.op, fg.buf, "Ok")
    /\ fg' = FgIdle
    /\ UNCHANGED <<buffers, busyWrite, ioVars, timVars, cfgVars>>

(***************************************************************************)
(* The DMA engine: an enabled channel with a non-zero count moves data and *)
(* counts down; at zero it raises the transfer-complete flag.  The enable  *)
(* bit is set and cleared by software only.                                *)
(***************************************************************************)
HwDmaProgress(ch) ==
    /\ ~Panicked
    /\ dma1[ch].ccr.en = 1
    /\ dma1[ch].cndtr > 0
    /\ \E n \in 0..MaxBeat :
          /\ n < dma1[ch].cndtr
          /\ dma1' = [dma1 EXCEPT ![ch].cndtr = n,
                                  ![ch].tcif = IF n = 0 THEN 1 ELSE @]
    /\ UNCHANGED <<buffers, fg, last, busyWrite, ioVars, timVars, cfgVars>>

(***************************************************************************)
(* The caller's own access to a buffer (a borrow of its contents), which   *)
(* the lock excludes while the DMA engine holds the buffer.                *)
(***************************************************************************)
CpuBorrowed == {b \in Bufs : buffers[b] = "Cpu"}

CpuBorrow(b) ==
    /\ ~Panicked
    /\ fg.pc = "idle"
    /\ buffers[b] = "Unlocked"
    /\ Cardinality(CpuBorrowed) < MaxCpuBorrows
    /\ buffers' = [buffers EXCEPT ![b] = "Cpu"]
    /\ UNCHANGED <<dma1, fg, last, busyWrite, ioVars, timVars, cfgVars>>

CpuReturn(b) ==
    /\ ~Panicked
    /\ fg.pc = "idle"
    /\ buffers[b] = "Cpu"
    /\ buffers' = [buffers EXCEPT ![b] = "Unlocked"]
    /\ UNCHANGED <<dma1, fg, last, busyWrite, ioVars, timVars, cfgVars>>

(***************************************************************************)
(* Non-blocking polling: hal::Serial for Serial (serial.rs) and            *)
(* hal::Spi<u8> for Spi (spi.rs).  Each call classifies one snapshot of    *)
(* the status register.                                                    *)
(***************************************************************************)

\* Values the 9-bit receive data register may hold, and bytes to transmit.
RxWords == {65, 511}
TxBytes == {66, 255}

Bits == {0, 1}

\* USART_ISR after reset: the transmit data register is empty.
UsartReset ==
    [isr |-> [ore |-> 0, nf |-> 0, fe |-> 0, rxne |-> 0, txe |-> 1],
     rdr |-> 0, tdr |-> 0]

\* SPI_SR after reset: the transmit buffer is empty.  `ovrclr` is the state of
\* the overrun flag's clearing sequence: 1 once the data register has been
\* read with the flag set.
SpiReset ==
    [sr |-> [ovr |-> 0, modf |-> 0, crcerr |-> 0, rxne |-> 0, txe |-> 1],
     dr |-> 0, txdr |-> 0, ovrclr |-> 0]

NoIo == [op |-> "none", sr |-> [none |-> 0], res |-> "none", dr |-> "none", val |-> -1]

\* What a call did: its result, its access to the data register and the byte
\* it read.
Outcome(res, dr, val) == [res |-> res, dr |-> dr, val |-> val]

\* `ptr::read_volatile(&rdr as *const _ as *const u8)`: the low 8 bits.
LowByte(w) == w % 256

\* Serial::read with the Noise and Framing checks in the other order.
serial_read_framing_first(sr, rdr) ==
    IF sr.ore = 1 THEN Outcome("Overrun", "none", -1)
    ELSE IF sr.fe = 1 THEN Outcome("Framing", "none", -1)
    ELSE IF sr.nf = 1 THEN Outcome("Noise", "none", -1)
    ELSE IF sr.rxne = 1 THEN Outcome("Ok", "read", LowByte(rdr))
    ELSE Outcome("WouldBlock", "none", -1)

\* hal::Serial::read
serial_read(sr, rdr) ==
    IF sr.ore = 1 THEN Outcome("Overrun", "none", -1)
    ELSE IF sr.nf = 1 THEN Outcome("Noise", "none", -1)
    ELSE IF sr.fe = 1 THEN Outcome("Framing", "none", -1)
    ELSE IF sr.rxne = 1 THEN Outcome("Ok", "read", LowByte(rdr))
    ELSE Outcome("WouldBlock", "none", -1)

\* Serial::write storing the byte before it looks at the status flags.
serial_write_store_first(sr, byte) ==
    IF sr.ore = 1 THEN Outcome("Overrun", "write", byte)
    ELSE IF sr.nf = 1 THEN Outcome("Noise", "write", byte)
    ELSE IF sr.fe = 1 THEN Outcome("Framing", "write", byte)
    ELSE IF sr.txe = 1 THEN Outcome("Ok", "write", byte)
    ELSE Outcome("WouldBlock", "write", byte)

\* hal::Serial::write
serial_write(sr, byte) ==
    IF sr.ore = 1 THEN Outcome("Overrun", "none", -1)
    ELSE IF sr.nf = 1 THEN Outcome("Noise", "none", -1)
    ELSE IF sr.fe = 1 THEN Outcome("Framing", "none", -1)
    ELSE IF sr.txe = 1 THEN Outcome("Ok", "write", byte)
    ELSE Outcome("WouldBlock", "none", -1)

\* Spi::read with the CRC-error check ahead of the mode-fault check.
spi_read_crc_first(sr, dr) ==
    IF sr.ovr = 1 THEN Outcome("Overrun", "none", -1)
    ELSE IF sr.crcerr = 1 THEN Outcome("Crc", "none", -1)
    ELSE IF sr.modf = 1 THEN Outcome("ModeFault", "none", -1)
    ELSE IF sr.rxne = 1 THEN Outcome("Ok", "read", LowByte(dr))
    ELSE Outcome("WouldBlock", "none", -1)

\* hal::Spi::read
spi_read(sr, dr) ==
    IF sr.ovr = 1 THEN Outcome("Overrun", "none", -1)
    ELSE IF sr.modf = 1 THEN Outcome("ModeFault", "none", -1)
    ELSE IF sr.crcerr = 1 THEN Outcome("Crc", "none", -1)
    ELSE IF sr.rxne = 1 THEN Outcome("Ok", "read", LowByte(dr))
    ELSE Outcome("WouldBlock", "none", -1)

\* hal::Spi::send
spi_send(sr, byte) ==
    IF sr.ovr = 1 THEN Outcome("Overrun", "none", -1)
    ELSE IF sr.modf = 1 THEN Outcome("ModeFault", "none", -1)
    ELSE IF sr.crcerr = 1 THEN Outcome("Crc", "none", -1)
    ELSE IF sr.txe = 1 THEN Outcome("Ok", "write", byte)
    ELSE Outcome("WouldBlock", "none", -1)

Polled(op, sr, o) ==
    [op |-> op, sr |-> sr, res |-> o.res, dr |-> o.dr, val |-> o.val]

\* A read of the receive data register clears RXNE; a store to the transmit
\* data register fills it and clears TXE.
SerialRead ==
    LET o == serial_read(usart.isr, usart.rdr) IN
    /\ port = "usart"
    /\ ioLast' = Polled("serial.read", usart.isr, o)
    /\ usart' = IF o.dr = "read" THEN [usart EXCEPT !.isr.rxne = 0] ELSE usart
    /\ UNCHANGED <<port, spi1, dmaVars, timVars, cfgVars>>

SerialWrite(byte) ==
    LET o == serial_write(usart.isr, byte) IN
    /\ port = "usart"
    /\ ioLast' = Polled("serial.write", usart.isr, o)
    /\ usart' = IF o.dr = "write"
                THEN [usart EXCEPT !.tdr = o.val, !.isr.txe = 0]
                ELSE usart
    /\ UNCHANGED <<port, spi1, dmaVars, timVars, cfgVars>>

\* `spi1.sr.read()`: the value read is the snapshot; the overrun flag is
\* cleared by a read of the data register followed by a read of the status
\* register, and this read completes that sequence.
SpiSrRead(s) ==
    IF s.ovrclr = 1 THEN [s EXCEPT !.sr.ovr = 0, !.ovrclr = 0] ELSE s

\* `ptr::read_volatile(&spi1.dr ...)`: clears RXNE and, with the overrun flag
\* set, begins the flag's clearing sequence.
SpiDrRead(s) == [s EXCEPT !.sr.rxne = 0, !.ovrclr = s.sr.ovr]

\* A word that arrives between the read of the status register and the read
\* of the data register of one call finds RXNE set: it is dropped and the
\* overrun flag set.
SpiLateWord(s) == [s EXCEPT !.sr.ovr = 1]

SpiRead ==
    LET o == spi_read(spi1.sr, spi1.dr)
        s == SpiSrRead(spi1)
    IN
    /\ port = "spi"
    /\ ioLast' = Polled("spi.read", spi1.sr, o)
    /\ spi1' \in IF o.dr = "read"
                 THEN {SpiDrRead(s), SpiDrRead(SpiLateWord(s))}
                 ELSE {s}
    /\ UNCHANGED <<port, usart, dmaVars, timVars, cfgVars>>

SpiSend(byte) ==
    LET o == spi_send(spi1.sr, byte)
        s == SpiSrRead(spi1)
    IN
    /\ port = "spi"
    /\ ioLast' = Polled("spi.send", spi1.sr, o)
    /\ spi1' = IF o.dr = "write"
               THEN [s EXCEPT !.txdr = o.val, !.sr.txe = 0]
               ELSE s
    /\ UNCHANGED <<port, usart, dmaVars, timVars, cfgVars>>

(***************************************************************************)
(* The peripherals: a received word sets RXNE, or the overrun flag when    *)
(* the previous one was not read; the line raises noise / framing (USART)  *)
(* or mode-fault / CRC-error (SPI); the transmitter drains.  No call of    *)
(* the library clears an error flag.                                       *)
(***************************************************************************)
HwUsartReceive(w) ==
    /\ port = "usart"
    /\ usart' = IF usart.isr.rxne = 1
                THEN [usart EXCEPT !.isr.ore = 1]
                ELSE [usart EXCEPT !.rdr = w, !.isr.rxne = 1]
    /\ UNCHANGED <<port, spi1, ioLast, dmaVars, timVars, cfgVars>>

HwUsartLineError(f) ==
    /\ port = "usart"
    /\ usart' = [usart EXCEPT !.isr[f] = 1]
    /\ UNCHANGED <<port, spi1, ioLast, dmaVars, timVars, cfgVars>>

HwUsartTxEmpty ==
    /\ port = "usart"
    /\ usart.isr.txe = 0
    /\ usart' = [usart EXCEPT !.isr.txe = 1]
    /\ UNCHANGED <<port, spi1, ioLast, dmaVars, timVars, cfgVars>>

HwSpiReceive(w) ==
    /\ port = "spi"
    /\ spi1' = IF spi1.sr.rxne = 1
               THEN [spi1 EXCEPT !.sr.ovr = 1]
               ELSE [spi1 EXCEPT !.dr = w, !.sr.rxne = 1]
    /\ UNCHANGED <<port, usart, ioLast, dmaVars, timVars, cfgVars>>

HwSpiFault(f) ==
    /\ port = "spi"
    /\ spi1' = [spi1 EXCEPT !.sr[f] = 1]
    /\ UNCHANGED <<port, usart, ioLast, dmaVars, timVars, cfgVars>>

HwSpiTxEmpty ==
    /\ port = "spi"
    /\ spi1.sr.txe = 0
    /\ spi1' = [spi1 EXCEPT !.sr.txe = 1]
    /\ UNCHANGED <<port, usart, ioLast, dmaVars, timVars, cfgVars>>

(***************************************************************************)
(* Timers (timer.rs): Timer<Tim7> and the generic Timer<T: TIM> for Tim2,  *)
(* Tim3 and Tim4.  A tick count is a u32; it is kept as its two 16-bit     *)
(* halves <<high, low>> so that its full range is covered.                 *)
(***************************************************************************)

\* The counter is observed at 0..MaxCnt and at the auto-reload value.
MaxCnt == 1

TimVariants == {"Tim7", "Tim2", "Tim3", "Tim4"}

\* Tick periods handed to init and set_timeout: 0, 1, 3, 65535, 65536, 65537,
\* 4294901759, 4294901761 and 4294967295.
Periods ==
    {<<0, 0>>, <<0, 1>>, <<0, 3>>, <<0, U16Max>>, <<1, 0>>, <<1, 1>>,
     <<U16Max - 1, U16Max>>, <<U16Max, 1>>, <<U16Max, U16Max>>}

NoPeriod == <<-1, -1>>

Lt32(a, b) == a[1] < b[1] \/ (a[1] = b[1] /\ a[2] < b[2])

\* period - 1 on u32, wrapping at zero.
Sub1U32(p) ==
    IF p[2] > 0 THEN <<p[1], p[2] - 1>>
    ELSE IF p[1] > 0 THEN <<p[1] - 1, U16Max>>
    ELSE <<U16Max, U16Max>>

\* p / d on u32 for 1 <= d <= 65536: long division over the four bytes of p.
DivU32(p, d) ==
    LET b3 == p[1] \div 256
        b2 == p[1] % 256
        b1 == p[2] \div 256
        b0 == p[2] % 256
        c3 == b3
        c2 == (c3 % d) * 256 + b2
        c1 == (c2 % d) * 256 + b1
        c0 == (c1 % d) * 256 + b0
    IN  <<(c3 \div d) * 256 + (c2 \div d), (c1 \div d) * 256 + (c0 \div d)>>

\* a * b for 0 <= a, b <= 65536, as the two 16-bit halves of the product.
Mul16(a, b) ==
    LET x == (a \div 256) * b
        y == (a % 256) * b
        lo == (x % 256) * 256 + (y % 65536)
    IN  <<(x \div 256) + (y \div 65536) + (lo \div 65536), lo % 65536>>

\* a * v on u32 for a 16-bit factor a: the product modulo 2^32, and whether
\* it overflowed.
MulU32(a, v) ==
    LET h == Mul16(a, v[1])
        l == Mul16(a, v[2])
        hi == h[2] + l[1]
    IN  [over |-> h[1] > 0 \/ hi > U16Max, val |-> <<hi % (U16Max + 1), l[2]>>]

\* What _set_timeout did: the fault it aborted on, and the values it wrote to
\* the prescaler and the auto-reload register (-1, NoPeriod: not written).
TimeoutSet(fault, psc, arr) == [fault |-> fault, psc |-> psc, arr |-> arr]

\* Timer<Tim7>::_set_timeout.  `period - 1` and the u16 sum `psc + 1` abort
\* on overflow when the build checks arithmetic (`checks`); otherwise they
\* wrap, and the sum wrapped to 0 aborts the division that follows.
set_timeout_tim7(period, checks) ==
    IF period = <<0, 0>> /\ checks THEN TimeoutSet("sub_overflow", -1, NoPeriod)
    ELSE LET psc == u16(Sub1U32(period)[1]) IN
         IF psc = -1 THEN TimeoutSet("u16", -1, NoPeriod)
         ELSE IF psc = U16Max
         THEN TimeoutSet(IF checks THEN "add_overflow" ELSE "div_zero", psc, NoPeriod)
         ELSE LET q == DivU32(period, psc + 1) IN
              IF q[1] > 0 THEN TimeoutSet("u16", psc, NoPeriod)
              ELSE TimeoutSet("none", psc, q)

\* Timer<T>::_set_timeout: the auto-reload value is stored as 32 bits, with
\* no conversion.
set_timeout_tim(period, checks) ==
    IF period = <<0, 0>> /\ checks THEN TimeoutSet("sub_overflow", -1, NoPeriod)
    ELSE LET psc == u16(Sub1U32(period)[1]) IN
         IF psc = -1 THEN TimeoutSet("u16", -1, NoPeriod)
         ELSE IF psc = U16Max
         THEN TimeoutSet(IF checks THEN "add_overflow" ELSE "div_zero", psc, NoPeriod)
         ELSE TimeoutSet("none", psc, DivU32(period, psc + 1))

_set_timeout(t, period, checks) ==
    IF t = "Tim7" THEN set_timeout_tim7(period, checks)
    ELSE set_timeout_tim(period, checks)

\* TIM2 counts on 32 bits; TIM3, TIM4 and TIM7 on 16: the high half of a
\* 32-bit store to their auto-reload register is dropped.
StoreArr(t, v) == IF t = "Tim2" THEN v ELSE <<0, v[2]>>

ArrReset(t) == IF t = "Tim2" THEN <<U16Max, U16Max>> ELSE <<0, U16Max>>

TimReset(t) ==
    [clk |-> FALSE, cr1 |-> [cen |-> 0, opm |-> 0], dier |-> [uie |-> 0],
     sr |-> [uif |-> 0], psc |-> 0, arr |-> ArrReset(t), cnt |-> <<0, 0>>]

NoTimCall ==
    [op |-> "none", res |-> "none", arg |-> NoPeriod, val |-> NoPeriod,
     cen0 |-> 0, seq |-> 0]

\* The record of a call: its result, its argument, the counter-enable bit it
\* found, and a mark that changes with every call.
TimReturned(op, res, arg) ==
    [op |-> op, res |-> res, arg |-> arg, val |-> NoPeriod,
     cen0 |-> tim.cr1.cen, seq |-> 1 - timLast.seq]

TimPanicked == timLast.res = "Panic"

\* The registers after _set_timeout.
WithTimeout(r, t, o) ==
    [r EXCEPT !.psc = IF o.psc = -1 THEN @ ELSE o.psc,
              !.arr = IF o.arr = NoPeriod THEN @ ELSE StoreArr(t, o.arr)]

\* `cr1.write(|w| w.opm().continuous())` / `cr1.write(|w| w.opm().bits(0))`
\* as a read-modify-write that keeps the other bits of CR1.
InitCr1Modify(cr1) == [cr1 EXCEPT !.opm = 0]

\* `cr1.write(...)`: every bit of CR1 not named takes its reset value, so the
\* counter is disabled.
InitCr1(cr1) == [cen |-> 0, opm |-> 0]

\* Timer::init: enable the timer's clock, program the period, select
\* continuous mode, enable the update interrupt.
TimInit(period) ==
    /\ ~TimPanicked
    /\ \E checks \in BOOLEAN :
          LET o == _set_timeout(timer, period, checks)
              clocked == [tim EXCEPT !.clk = TRUE]
          IN  IF o.fault # "none"
              THEN /\ tim' = WithTimeout(clocked, timer, o)
                   /\ timLast' = TimReturned("init", "Panic", period)
                   /\ UNCHANGED runOp
              ELSE /\ tim' = [WithTimeout(clocked, timer, o) EXCEPT
                                 !.cr1 = InitCr1(@), !.dier.uie = 1]
                   /\ timLast' = TimReturned("init", "Ok", period)
                   /\ runOp' = "init"
    /\ UNCHANGED <<timer, dmaVars, ioVars, cfgVars>>

\* hal::Timer::set_timeout
TimSetTimeout(period) ==
    /\ ~TimPanicked
    /\ \E checks \in BOOLEAN :
          LET o == _set_timeout(timer, period, checks) IN
          /\ tim' = WithTimeout(tim, timer, o)
          /\ timLast' = TimReturned("set_timeout",
                                    IF o.fault = "none" THEN "Ok" ELSE "Panic", period)
    /\ UNCHANGED <<timer, runOp, dmaVars, ioVars, cfgVars>>

\* get_timeout: `u32(psc + 1) * u32(arr)`.  The sum is a u16 sum and the
\* product a u32 product: on overflow they abort when the build checks
\* arithmetic and wrap otherwise.  NoPeriod stands for the abort.
get_timeout(r, checks) ==
    LET sum == IF r.psc = U16Max THEN 0 ELSE r.psc + 1
        prod == MulU32(sum, r.arr)
    IN  IF checks /\ (r.psc = U16Max \/ prod.over) THEN NoPeriod ELSE prod.val

\* hal::Timer::get_timeout
TimGetTimeout ==
    /\ ~TimPanicked
    /\ \E checks \in BOOLEAN :
          LET v == get_timeout(tim, checks) IN
          timLast' = [TimReturned("get_timeout",
                                  IF v = NoPeriod THEN "Panic" ELSE "Ok", NoPeriod)
                         EXCEPT !.val = v]
    /\ UNCHANGED <<timer, tim, runOp, dmaVars, ioVars, cfgVars>>

\* hal::Timer::pause
TimPause ==
    /\ ~TimPanicked
    /\ tim' = [tim EXCEPT !.cr1.cen = 0]
    /\ timLast' = TimReturned("pause", "Ok", NoPeriod)
    /\ runOp' = "pause"
    /\ UNCHANGED <<timer, dmaVars, ioVars, cfgVars>>

\* hal::Timer::resume
TimResume ==
    /\ ~TimPanicked
    /\ tim' = [tim EXCEPT !.cr1.cen = 1]
    /\ timLast' = TimReturned("resume", "Ok", NoPeriod)
    /\ runOp' = "resume"
    /\ UNCHANGED <<timer, dmaVars, ioVars, cfgVars>>

\* hal::Timer::restart
TimRestart ==
    /\ ~TimPanicked
    /\ tim' = [tim EXCEPT !.cnt = <<0, 0>>]
    /\ timLast' = TimReturned("restart", "Ok", NoPeriod)
    /\ UNCHANGED <<timer, runOp, dmaVars, ioVars, cfgVars>>

\* The update flag is cleared by a store of 0 and unaffected by a store of 1.
StoreUif(cur, w) == IF w = 0 THEN 0 ELSE cur

\* The value wait stores to the update flag: Timer<Tim7> stores
\* `uif().clear()`, the generic Timer<T> stores `uif().bits(1)`.
WaitUifStore(t) == IF t = "Tim7" THEN 0 ELSE 1

\* hal::Timer::wait
TimWait ==
    /\ ~TimPanicked
    /\ IF tim.sr.uif = 0
       THEN /\ timLast' = TimReturned("wait", "WouldBlock", NoPeriod)
            /\ UNCHANGED tim
       ELSE /\ tim' = [tim EXCEPT !.sr.uif = StoreUif(@, WaitUifStore(timer))]
            /\ timLast' = TimReturned("wait", "Ok", NoPeriod)
    /\ UNCHANGED <<timer, runOp, dmaVars, ioVars, cfgVars>>

(***************************************************************************)
(* The counter of an enabled timer counts up to the auto-reload value; the *)
(* period ends with an update event, which sets the update flag and starts *)
(* the counter again from zero.  An auto-reload value of 0 blocks it.      *)
(***************************************************************************)
HwTimCount ==
    /\ ~TimPanicked
    /\ tim.cr1.cen = 1
    /\ Lt32(tim.cnt, tim.arr)
    /\ \E c \in {<<0, tim.cnt[2] + 1>>, tim.arr} :
          /\ Lt32(tim.cnt, c)
          /\ ~Lt32(tim.arr, c)
          /\ c = tim.arr \/ (tim.cnt[1] = 0 /\ c[2] <= MaxCnt)
          /\ tim' = [tim EXCEPT !.cnt = c]
    /\ UNCHANGED <<timer, timLast, runOp, dmaVars, ioVars, cfgVars>>

HwTimUpdate ==
    /\ ~TimPanicked
    /\ tim.cr1.cen = 1
    /\ tim.arr # <<0, 0>>
    /\ ~Lt32(tim.cnt, tim.arr)
    /\ tim' = [tim EXCEPT !.cnt = <<0, 0>>, !.sr.uif = 1]
    /\ UNCHANGED <<timer, timLast, runOp, dmaVars, ioVars, cfgVars>>

TimNext ==
    \/ \E period \in Periods : TimInit(period)
    \/ \E period \in Periods : TimSetTimeout(period)
    \/ TimPause
    \/ TimResume
    \/ TimRestart
    \/ TimWait
    \/ TimGetTimeout
    \/ HwTimCount
    \/ HwTimUpdate

(***************************************************************************)
(* Bring-up (serial.rs Serial::init, listen, unlisten; spi.rs Spi::init):  *)
(* clock gates, pin multiplexing, DMA channel configuration and the        *)
(* control registers of USART1, USART2 and SPI1.                           *)
(***************************************************************************)

\* `assert!(brr >= 16, "impossible baud rate")`
MinBrr == 16

Usarts == {"Usart1", "Usart2"}

Events == {"Rxne", "Tc", "Txe"}

\* Baud dividers (U::Ticks, a u32) handed to init: below, at and above the
\* minimum, and one past 16 bits whose low half is below the minimum.
Dividers == {MinBrr - 1, MinBrr, MinBrr + 1, U16Max + MinBrr - 1}

\* Port A pins the library multiplexes: SPI1 on PA4..PA7, USART1 on PA9/PA10,
\* USART2 on PA14/PA15.
Pins == {4, 5, 6, 7, 9, 10, 14, 15}

RccReset ==
    [dmaen |-> 0, usart1en |-> 0, usart2en |-> 0, spi1en |-> 0, iopaen |-> 0]

\* GPIOA after reset: every pin an input, but for the debug pins PA14 / PA15.
GpioaReset ==
    [p \in Pins |-> [moder |-> IF p \in {14, 15} THEN "alternate" ELSE "input",
                     afr |-> 0]]

Cr1Reset == [ue |-> 0, re |-> 0, te |-> 0, rxneie |-> 0, tcie |-> 0, txeie |-> 0]

UsartCtlReset ==
    [cr1 |-> Cr1Reset, cr2 |-> [stop |-> 0],
     cr3 |-> [dmat |-> 0, dmar |-> 0], brr |-> 0]

SpiCtlReset ==
    [cr1 |-> [mstr |-> 0, spe |-> 0],
     cr2 |-> [ssoe |-> 0, txeie |-> 0, rxneie |-> 0, errie |-> 0]]

NoCfgCall ==
    [op |-> "none", inst |-> "none", dma |-> FALSE, brr |-> 0, event |-> "none",
     res |-> "none"]

CfgReturned(op, inst, dma, brr, event, res) ==
    [op |-> op, inst |-> inst, dma |-> dma, brr |-> brr, event |-> event,
     res |-> res]

\* A failed assertion or `unimplemented!()` aborts the program.
CfgPanicked == cfgLast.res = "Panic"

\* The clock gates with both instances' gates exchanged.
InitClocksOther(r, inst, dma) ==
    LET r1 == IF dma THEN [r EXCEPT !.dmaen = 1] ELSE r IN
    IF inst = "Usart1" THEN [r1 EXCEPT !.usart2en = 1, !.iopaen = 1]
    ELSE [r1 EXCEPT !.usart1en = 1, !.iopaen = 1]

\* `rcc.ahbenr.modify(dmaen)` if a DMA handle was passed, then the
\* instance's own clock gate and the clock gate of port A.
InitClocks(r, inst, dma) ==
    LET r1 == IF dma THEN [r EXCEPT !.dmaen = 1] ELSE r IN
    IF inst = "Usart1" THEN [r1 EXCEPT !.usart1en = 1, !.iopaen = 1]
    ELSE [r1 EXCEPT !.usart2en = 1, !.iopaen = 1]

\* afrh9/afrh10 and moder9/moder10 for Usart1, afrh14/afrh15 and
\* moder14/moder15 for Usart2: alternate function 7.
InitPins(g, inst) ==
    LET own == IF inst = "Usart1" THEN {9, 10} ELSE {14, 15} IN
    [p \in Pins |-> IF p \in own THEN [moder |-> "alternate", afr |-> 7] ELSE g[p]]

\* The channel configuration as a read-modify-write that keeps the enable bit.
InitCcrKeepEnable(ch) ==
    [mem2mem |-> 0, pl |-> 1, msize |-> 0, psize |-> 0, minc |-> 1, circ |-> 0,
     pinc |-> 0, dir |-> IF ch = 4 THEN 1 ELSE 0, tcie |-> 1,
     en |-> dma1[ch].ccr.en]

\* `dma1.ccr4.write(...)`, `dma1.ccr5.write(...)`: the fixed configuration
\* of the transmit and of the receive channel, both left disabled.
InitCcr(ch) ==
    [mem2mem |-> 0, pl |-> 1, msize |-> 0, psize |-> 0, minc |-> 1, circ |-> 0,
     pinc |-> 0, dir |-> IF ch = 4 THEN 1 ELSE 0, tcie |-> 1, en |-> 0]

\* The baud-rate register holds 16 bits of the 32 stored into it.
StoreBrr(brr) == brr % (U16Max + 1)

\* `usart.cr3.write(|w| w.rtse().bits(0).ctse().bits(0).dmat().bits(1).dmar().bits(1))`
InitCr3 == [dmat |-> 1, dmar |-> 1]

\* `usart.cr1.write(ue 1, re 1, te 1, m 0, pce 0, rxneie 0)`: the bits not
\* named, tcie and txeie among them, take their reset value.
InitUsartCr1 == [Cr1Reset EXCEPT !.ue = 1, !.re = 1, !.te = 1]

\* An init that goes on past the unsupported DMA request.
InitOutcomeNoDmaCheck(inst, brr, dma) ==
    IF brr < MinBrr THEN "assert" ELSE "done"

\* The point at which init stops: DMA asked for on an instance other than
\* Usart1 (unimplemented), a divider below the minimum (assertion), or the
\* end of the function.
InitOutcome(inst, brr, dma) ==
    IF dma /\ inst # "Usart1" THEN "unimplemented"
    ELSE IF brr < MinBrr THEN "assert"
    ELSE "done"

\* Serial::init / _init.
SerialInit(inst, brr, dma) ==
    LET out == InitOutcome(inst, brr, dma)
        configured == [dma1 EXCEPT ![4].ccr = InitCcr(4), ![5].ccr = InitCcr(5)]
    IN
    /\ ~CfgPanicked
    /\ rcc' = InitClocks(rcc, inst, dma)
    /\ gpioa' = InitPins(gpioa, inst)
    /\ dma1' = IF dma /\ out # "unimplemented" THEN configured ELSE dma1
    /\ uctl' = IF out = "unimplemented" THEN uctl
               ELSE IF out = "assert" THEN [uctl EXCEPT ![inst].cr2 = [stop |-> 0]]
               ELSE [uctl EXCEPT ![inst] =
                        [cr1 |-> InitUsartCr1, cr2 |-> [stop |-> 0],
                         cr3 |-> InitCr3, brr |-> StoreBrr(brr)]]
    /\ cfgLast' = CfgReturned("init", inst, dma, brr, "none",
                              IF out = "done" THEN "Ok" ELSE "Panic")
    /\ UNCHANGED <<spictl, buffers, fg, last, busyWrite, ioVars, timVars>>

\* `usart.cr1.modify(|_, w| w.<event>ie().bits(1))` as a write, which resets
\* the bits it does not name.
listen_by_write(cr1, event) ==
    IF event = "Rxne" THEN [Cr1Reset EXCEPT !.rxneie = 1]
    ELSE IF event = "Tc" THEN [Cr1Reset EXCEPT !.tcie = 1]
    ELSE [Cr1Reset EXCEPT !.txeie = 1]

\* Serial::listen: `usart.cr1.modify(|_, w| w.rxneie().bits(1))`, tcie for
\* Event::Tc, txeie for Event::Txe.
listen(cr1, event) ==
    IF event = "Rxne" THEN [cr1 EXCEPT !.rxneie = 1]
    ELSE IF event = "Tc" THEN [cr1 EXCEPT !.tcie = 1]
    ELSE [cr1 EXCEPT !.txeie = 1]

\* Serial::unlisten
unlisten(cr1, event) ==
    IF event = "Rxne" THEN [cr1 EXCEPT !.rxneie = 0]
    ELSE IF event = "Tc" THEN [cr1 EXCEPT !.tcie = 0]
    ELSE [cr1 EXCEPT !.txeie = 0]

SerialListen(inst, event) ==
    /\ ~CfgPanicked
    /\ uctl' = [uctl EXCEPT ![inst].cr1 = listen(@, event)]
    /\ cfgLast' = CfgReturned("listen", inst, FALSE, 0, event, "Ok")
    /\ UNCHANGED <<rcc, gpioa, spictl, dmaVars, ioVars, timVars>>

SerialUnlisten(inst, event) ==
    /\ ~CfgPanicked
    /\ uctl' = [uctl EXCEPT ![inst].cr1 = unlisten(@, event)]
    /\ cfgLast' = CfgReturned("unlisten", inst, FALSE, 0, event, "Ok")
    /\ UNCHANGED <<rcc, gpioa, spictl, dmaVars, ioVars, timVars>>

\* Spi::init: clock gates and pins of SPI1, `cr2.write(ssoe 1)`,
\* `cr1.write(cpha 1, cpol 1, mstr 1, ...)`.
SpiInit ==
    /\ ~CfgPanicked
    /\ rcc' = [rcc EXCEPT !.spi1en = 1, !.iopaen = 1]
    /\ gpioa' = [p \in Pins |-> IF p \in {4, 5, 6, 7}
                                THEN [moder |-> "alternate", afr |-> 5]
                                ELSE gpioa[p]]
    /\ spictl' = [cr1 |-> [mstr |-> 1, spe |-> 0],
                  cr2 |-> [SpiCtlReset.cr2 EXCEPT !.ssoe = 1]]
    /\ cfgLast' = CfgReturned("spi.init", "Spi1", FALSE, 0, "none", "Ok")
    /\ UNCHANGED <<uctl, dmaVars, ioVars, timVars>>

\* Spi::enable / Spi::disable
SpiEnable(on) ==
    /\ ~CfgPanicked
    /\ spictl' = [spictl EXCEPT !.cr1.spe = on]
    /\ cfgLast' = CfgReturned(IF on = 1 THEN "spi.enable" ELSE "spi.disable",
                              "Spi1", FALSE, 0, "none", "Ok")
    /\ UNCHANGED <<rcc, gpioa, uctl, dmaVars, ioVars, timVars>>

ConfigNext ==
    \/ \E inst \in Usarts, brr \in Dividers, dma \in BOOLEAN : SerialInit(inst, brr, dma)
    \/ \E inst \in Usarts, event \in Events : SerialListen(inst, event)
    \/ \E inst \in Usarts, event \in Events : SerialUnlisten(inst, event)
    \/ SpiInit
    \/ \E on \in Bits : SpiEnable(on)

\* Polling, with the interrupt enables switched in between.
IoNext ==
    \/ SerialRead
    \/ \E byte \in TxBytes : SerialWrite(byte)
    \/ SpiRead
    \/ \E byte \in TxBytes : SpiSend(byte)
    \/ \E w \in RxWords : HwUsartReceive(w)
    \/ \E f \in {"nf", "fe"} : HwUsartLineError(f)
    \/ HwUsartTxEmpty
    \/ \E w \in RxWords : HwSpiReceive(w)
    \/ \E f \in {"modf", "crcerr"} : HwSpiFault(f)
    \/ HwSpiTxEmpty
    \/ \E event \in Events : port = "usart" /\ SerialListen("Usart1", event)
    \/ \E event \in Events : port = "usart" /\ SerialUnlisten("Usart1", event)

\* The DMA engine at reset, every buffer in its owner's hands, no call made.
DmaReset ==
    [dma1 |-> [ch \in Channels |-> ChannelReset],
     buffers |-> [b \in Bufs |-> "Unlocked"]]

DmaNext ==
    \/ \E b \in Bufs : IsrReadExact(b)
    \/ \E b \in Bufs : IsrWriteAll(b)
    \/ \E op \in DmaOps, b \in Bufs : FgCheck(op, b)
    \/ FgLock
    \/ FgWriteCndtr
    \/ FgWriteCpar
    \/ FgWriteCmar
    \/ FgEnable
    \/ \E ch \in Channels : HwDmaProgress(ch)
    \/ \E b \in Bufs : CpuBorrow(b)
    \/ \E b \in Bufs : CpuReturn(b)

\* The state with the handles constructed: the DMA engine at reset, the
\* status flags of the polled peripheral `p` as given.
AtReset(p, uisr, ssr, t) ==
    /\ timer = t
    /\ tim = TimReset(t)
    /\ timLast = NoTimCall
    /\ runOp = "none"
    /\ dma1 = DmaReset.dma1
    /\ buffers = DmaReset.buffers
    /\ fg = FgIdle
    /\ last = NoCall
    /\ busyWrite = {}
    /\ port = p
    /\ usart = [UsartReset EXCEPT !.isr = uisr]
    /\ spi1 = [SpiReset EXCEPT !.sr = ssr]
    /\ ioLast = NoIo
    /\ rcc = RccReset
    /\ gpioa = GpioaReset
    /\ uctl = [inst \in Usarts |-> UsartCtlReset]
    /\ spictl = SpiCtlReset
    /\ cfgLast = NoCfgCall

Init == AtReset("usart", UsartReset.isr, SpiReset.sr, "Tim7")

\* The DMA transfer arbiter of the serial port.
Spec == Init /\ [][DmaNext]_vars

\* Polling starts on a peripheral that has been on the line for a while: its
\* status register holds any combination of the flags.
InitIo ==
    \/ \E f \in [ore : Bits, nf : Bits, fe : Bits, rxne : Bits, txe : Bits] :
          AtReset("usart", f, SpiReset.sr, "Tim7")
    \/ \E f \in [ovr : Bits, modf : Bits, crcerr : Bits, rxne : Bits, txe : Bits] :
          AtReset("spi", UsartReset.isr, f, "Tim7")

\* Polling of the serial port or of the SPI bus.
SpecIo == InitIo /\ [][IoNext]_vars

InitTimer == \E t \in TimVariants : AtReset("usart", UsartReset.isr, SpiReset.sr, t)

\* The timer behind a Timer handle, for each of the four instances.
SpecTimer == InitTimer /\ [][TimNext]_vars

\* The serial port as a whole, on one-byte buffers: bring-up, interrupt
\* enables, polling and DMA transfers in any order.
SerialNext ==
    \/ \E inst \in Usarts, dma \in BOOLEAN : ~Panicked /\ SerialInit(inst, MinBrr, dma)
    \/ \E event \in Events : ~Panicked /\ SerialListen("Usart1", event)
    \/ \E event \in Events : ~Panicked /\ SerialUnlisten("Usart1", event)
    \/ ~Panicked /\ ~CfgPanicked /\ SerialRead
    \/ \E byte \in TxBytes : ~Panicked /\ ~CfgPanicked /\ SerialWrite(byte)
    \/ \E b \in {x \in Bufs : x.len = 1} : ~CfgPanicked /\ IsrReadExact(b)
    \/ \E b \in {x \in Bufs : x.len = 1} : ~CfgPanicked /\ IsrWriteAll(b)
    \/ \E ch \in Channels : ~CfgPanicked /\ HwDmaProgress(ch)

InitSerial == AtReset("usart", UsartReset.isr, SpiReset.sr, "Tim3")

SpecSerial == InitSerial /\ [][SerialNext]_vars

InitConfig == AtReset("usart", UsartReset.isr, SpiReset.sr, "Tim2")

\* Bring-up of the serial ports and of the SPI bus.
SpecConfig == InitConfig /\ [][ConfigNext]_vars

(***************************************************************************)
(* Properties of the DMA transfer arbiter.                                 *)
(***************************************************************************)

\* A transfer is in flight on a channel that is enabled with data left to move.
InFlight(ch) == dma1[ch].ccr.en = 1 /\ dma1[ch].cndtr > 0

InFlightOn(b) == InFlight(b.ch) /\ dma1[b.ch].cmar = b

\* Who holds buffer b: the CPU (a borrow) and the channels moving its data.
Holders(b) ==
    (IF buffers[b] = "Cpu" THEN {"cpu"} ELSE {})
        \cup {ch \in Channels : InFlight(ch) /\ dma1[ch].cmar = b}

\* A call of read_exact / write_all made from interrupt context returned in
\* this step.
IsrReturned == last' # last /\ last'.who = "isr"

C2_NoWriteWhileEnabled == busyWrite = {}

\* C3: a call made while its channel's enable bit is set returns InUse in
\* that very step and leaves every register of the DMA engine unchanged; the
\* foreground never goes past the busy check of a busy channel.
C3_InUseLeavesRegisters ==
    [][\A op \in DmaOps : dma1[ChannelOf(op)].ccr.en = 1 =>
          /\ (fg.pc = "idle" /\ fg'.pc # "idle") => fg'.op # op
          /\ (/\ last' # last
              /\ last'.op = op
              /\ (last'.who = "isr" \/ fg.pc = "idle"))
                => (last'.res = "InUse" /\ dma1' = dma1 /\ fg' = fg)]_vars

\* C3 witness: a call has returned InUse on a channel whose enable bit is set.
C3_Witness ==
    /\ last.res = "InUse"
    /\ dma1[ChannelOf(last.op)].ccr.en = 1

\* C4: a call with a buffer longer than 65535 bytes never returns Ok; it aborts
\* on the failed conversion without touching a DMA register (no truncated
\* count is written, the enable bit is not set), and the foreground never
\* reaches the register writes that follow the count.
C4_OverlongFails ==
    /\ [](last.res = "Ok" => last.buf.len <= U16Max)
    /\ [](fg.pc \in {"cpar", "cmar", "en"} => fg.buf.len <= U16Max)
    /\ [][(last' # last /\ last'.buf.len > U16Max /\ last'.res # "InUse")
            => (last'.res \in {"PanicU16", "PanicLock"} /\ dma1' = dma1)]_vars

\* C4 witness: a call on an idle channel with an over-long buffer has aborted,
\* the channel still disabled and its count register still at its reset value.
C4_Witness ==
    /\ last.res = "PanicU16"
    /\ last.buf.len > U16Max
    /\ dma1[ChannelOf(last.op)].ccr.en = 0
    /\ dma1[ChannelOf(last.op)].cndtr = 0

(***************************************************************************)
(* Properties of the non-blocking polling calls.                           *)
(***************************************************************************)

SerialOps == {"serial.read", "serial.write"}
SpiOps == {"spi.read", "spi.send"}

\* The ready flag of the call's direction in its status snapshot.
ReadyIn(l) == IF l.op \in {"serial.read", "spi.read"} THEN l.sr.rxne ELSE l.sr.txe

\* Whether the status snapshot of the call carries an error flag.
ErrorIn(l) ==
    IF l.op \in SerialOps
    THEN l.sr.ore = 1 \/ l.sr.nf = 1 \/ l.sr.fe = 1
    ELSE l.sr.ovr = 1 \/ l.sr.modf = 1 \/ l.sr.crcerr = 1

\* C5: Serial read and write report exactly the highest-priority outcome of
\* Overrun > Noise > Framing > ready > WouldBlock that the status snapshot
\* carries, for every combination of the flags.
C5_SerialPriority ==
    ioLast.op \in SerialOps =>
        LET sr == ioLast.sr
            ready == ReadyIn(ioLast)
        IN  /\ ioLast.res \in {"Overrun", "Noise", "Framing", "Ok", "WouldBlock"}
            /\ ioLast.res = "Overrun" <=> sr.ore = 1
            /\ ioLast.res = "Noise" <=> (sr.ore = 0 /\ sr.nf = 1)
            /\ ioLast.res = "Framing" <=> (sr.ore = 0 /\ sr.nf = 0 /\ sr.fe = 1)
            /\ ioLast.res = "Ok" <=> (~ErrorIn(ioLast) /\ ready = 1)
            /\ ioLast.res = "WouldBlock" <=> (~ErrorIn(ioLast) /\ ready = 0)

\* C5 witness: a read whose snapshot carried noise, framing and the ready flag
\* but no overrun reported Noise.
C5_Witness ==
    /\ ioLast.op = "serial.read"
    /\ ioLast.sr.ore = 0 /\ ioLast.sr.nf = 1 /\ ioLast.sr.fe = 1
    /\ ioLast.sr.rxne = 1
    /\ ioLast.res = "Noise"

\* C6 as stated: SPI read and send report Crc whenever the CRC-error flag is
\* set and overrun is clear, and ModeFault only when both are clear.
C6_SpiCrcBeforeModeFault ==
    ioLast.op \in SpiOps =>
        /\ (ioLast.sr.crcerr = 1 /\ ioLast.sr.ovr = 0) => ioLast.res = "Crc"
        /\ ioLast.res = "ModeFault" => (ioLast.sr.ovr = 0 /\ ioLast.sr.crcerr = 0)

\* C6 as amended: SPI read and send report exactly the highest-priority
\* outcome of Overrun > ModeFault > Crc > ready > WouldBlock; a snapshot with
\* mode-fault set and overrun clear is reported as ModeFault (also when
\* CRC-error is set), and Crc only when overrun and mode-fault are clear.
C6_SpiPriority ==
    ioLast.op \in SpiOps =>
        LET sr == ioLast.sr
            ready == ReadyIn(ioLast)
        IN  /\ ioLast.res \in {"Overrun", "ModeFault", "Crc", "Ok", "WouldBlock"}
            /\ ioLast.res = "Overrun" <=> sr.ovr = 1
            /\ ioLast.res = "ModeFault" <=> (sr.ovr = 0 /\ sr.modf = 1)
            /\ ioLast.res = "Crc" <=> (sr.ovr = 0 /\ sr.modf = 0 /\ sr.crcerr = 1)
            /\ ioLast.res = "Ok" <=> (~ErrorIn(ioLast) /\ ready = 1)
            /\ ioLast.res = "WouldBlock" <=> (~ErrorIn(ioLast) /\ ready = 0)

\* C6 witness: a read whose snapshot carried both mode-fault and CRC-error,
\* and no overrun, reported ModeFault.
C6_Witness ==
    /\ ioLast.op = "spi.read"
    /\ ioLast.sr.ovr = 0 /\ ioLast.sr.modf = 1 /\ ioLast.sr.crcerr = 1
    /\ ioLast.res = "ModeFault"

\* C7: the data register is accessed only by a call that returns Ok.  A call
\* whose snapshot carries an error flag returns an error and neither reads the
\* receive register nor writes the transmit register, also when the ready
\* flag is set; the same holds for WouldBlock.  A call that does not return
\* Ok leaves the data registers and the ready flags as they were.
C7_NoDeliveryOnError ==
    /\ [](ioLast.op # "none" =>
            /\ ErrorIn(ioLast) => (ioLast.res \notin {"Ok", "WouldBlock"}
                                   /\ ioLast.dr = "none" /\ ioLast.val = -1)
            /\ ioLast.res = "WouldBlock" => ioLast.dr = "none"
            /\ ioLast.dr # "none" => ioLast.res = "Ok")
    /\ [][(ioLast' # ioLast /\ ioLast'.res # "Ok")
            => (/\ usart' = usart
                /\ spi1'.dr = spi1.dr /\ spi1'.txdr = spi1.txdr
                /\ spi1'.sr.rxne = spi1.sr.rxne
                /\ spi1'.sr.txe = spi1.sr.txe)]_vars

\* C7 witness: a write found the transmit register empty and the framing flag
\* set, reported Framing and stored nothing.
C7_Witness ==
    /\ ioLast.op = "serial.write"
    /\ ioLast.sr.txe = 1 /\ ioLast.sr.fe = 1
    /\ ioLast.res = "Framing"
    /\ ioLast.dr = "none"
    /\ usart.tdr = UsartReset.tdr

(***************************************************************************)
(* Properties of the timers.                                               *)
(***************************************************************************)

\* A timer call returned (or aborted) in this step.
TimCalled == timLast' # timLast

Le32(a, b) == ~Lt32(b, a)

\* C8: wait consumes each update event exactly once, on every timer: with the
\* update flag clear it returns WouldBlock and changes nothing; with the flag
\* set it returns Ok and leaves the flag clear, so that the next wait returns
\* WouldBlock until the hardware sets the flag again.
C8_WaitConsumesEvent ==
    [][(TimCalled /\ timLast'.op = "wait") =>
          IF tim.sr.uif = 0
          THEN timLast'.res = "WouldBlock" /\ tim' = tim
          ELSE timLast'.res = "Ok" /\ tim'.sr.uif = 0]_vars

\* C9: the counter runs iff the most recent of init / pause / resume that
\* returned was resume.  A resume sets the counter-enable bit, a pause and a
\* completed init clear it (init also when the timer was running), and no
\* other call and no hardware step changes it; restart changes nothing but
\* the counter, which it zeroes, and set_timeout nothing but the prescaler
\* and the auto-reload register.
C9_RunState ==
    /\ [](~TimPanicked => (tim.cr1.cen = 1 <=> runOp = "resume"))
    /\ [][/\ (TimCalled /\ timLast'.op = "resume") => tim'.cr1.cen = 1
          /\ (TimCalled /\ timLast'.op = "pause") => tim'.cr1.cen = 0
          /\ (TimCalled /\ timLast'.op = "init" /\ timLast'.res = "Ok")
                => tim'.cr1.cen = 0
          /\ ~(TimCalled /\ timLast'.op \in {"resume", "pause", "init"})
                => tim'.cr1 = tim.cr1
          /\ (TimCalled /\ timLast'.op = "restart")
                => tim' = [tim EXCEPT !.cnt = <<0, 0>>]
          /\ (TimCalled /\ timLast'.op = "set_timeout")
                => tim' = [tim EXCEPT !.psc = tim'.psc, !.arr = tim'.arr]]_vars

\* C9 witness: init was called on a running timer, returned, and left the
\* counter disabled.
C9_Witness ==
    /\ timLast.op = "init"
    /\ timLast.res = "Ok"
    /\ timLast.cen0 = 1
    /\ tim.cr1.cen = 0
    /\ runOp = "init"

\* C10: for every period P with 1 <= P <= 2^32 - 1, set_timeout completes
\* without an arithmetic fault and programs prescaler = (P - 1) / 65536 <= 65535
\* and reload = P / (prescaler + 1) <= 65535.
C10_SetTimeoutTotal ==
    (timLast.op = "set_timeout" /\ timLast.arg # <<0, 0>>) =>
        LET P == timLast.arg
            psc == tim.psc
            arr == tim.arr
        IN  /\ timLast.res = "Ok"
            /\ psc <= U16Max
            /\ Lt32(<<psc, 0>>, P) /\ Le32(P, <<psc + 1, 0>>)
            /\ arr[1] = 0 /\ arr[2] <= U16Max
            /\ Le32(Mul16(arr[2], psc + 1), P)
            /\ Lt32(P, Mul16(arr[2] + 1, psc + 1))

\* C11: get_timeout is the inverse of set_timeout.  A get_timeout that follows
\* a set_timeout which accepted the period P >= 1 returns, without a fault,
\* (prescaler + 1) x reload of the programmed registers, and that value is P
\* whenever prescaler + 1 divides P.
C11_GetTimeoutInverse ==
    [][(/\ timLast.op = "set_timeout" /\ timLast.res = "Ok"
        /\ timLast.arg # <<0, 0>>
        /\ TimCalled /\ timLast'.op = "get_timeout")
          => LET P == timLast.arg
                 d == tim.psc + 1
             IN  /\ timLast'.res = "Ok"
                 /\ timLast'.val = MulU32(d, tim.arr).val
                 /\ ~MulU32(d, tim.arr).over
                 /\ MulU32(d, DivU32(P, d)).val = P => timLast'.val = P]_vars

(***************************************************************************)
(* Further properties of the DMA transfer arbiter.                         *)
(***************************************************************************)

\* A call of read_exact / write_all returned (or aborted) in this step, as a
\* whole (interrupt context) or at its busy check (foreground).
DmaCallReturned == last' # last /\ (last'.who = "isr" \/ fg.pc = "idle")

\* The transfer last started on the channel has moved all its data.
Completed(ch) ==
    dma1[ch].ccr.en = 1 /\ dma1[ch].cndtr = 0 /\ dma1[ch].tcif = 1

\* C17: InUse is recoverable by retry.  Once the transfer on a channel has
\* completed in hardware, a call on that channel with an unlocked buffer of a
\* valid length returns Ok and starts a new transfer.
C17_RetryAfterCompletion ==
    [][\A ch \in Channels :
          (/\ Completed(ch)
           /\ DmaCallReturned
           /\ last'.buf.ch = ch
           /\ last'.buf.len <= U16Max
           /\ buffers[last'.buf] = "Unlocked")
            => (/\ last'.res = "Ok"
                /\ dma1'[ch].cndtr = last'.buf.len
                /\ dma1'[ch].cmar = last'.buf)]_vars

\* C19: start ordering.  A call goes through lock, count, peripheral address,
\* memory address, enable in this order; in the step that sets a channel's
\* enable bit the count register holds the buffer's length, the peripheral
\* address is the USART data register of the direction and the memory address
\* is the locked buffer, and that step returns Ok; a call that returns Ok
\* leaves the enable bit set, with the transfer still to be done.
C19_StartOrdering ==
    /\ [][fg'.pc # fg.pc =>
             <<fg.pc, fg'.pc>> \in {<<"idle", "lock">>, <<"lock", "cndtr">>,
                                     <<"cndtr", "cpar">>, <<"cpar", "cmar">>,
                                     <<"cmar", "en">>, <<"en", "idle">>}]_vars
    /\ [][\A ch \in Channels :
             (dma1[ch].ccr.en = 0 /\ dma1'[ch].ccr.en = 1) =>
                /\ last'.res = "Ok"
                /\ last'.op = (IF ch = 5 THEN "read_exact" ELSE "write_all")
                /\ last'.who = "fg" => fg.pc = "en"
                /\ dma1'[ch].cndtr = last'.buf.len
                /\ dma1'[ch].cndtr > 0
                /\ dma1'[ch].cpar = (IF ch = 5 THEN "usart1.rdr" ELSE "usart1.tdr")
                /\ dma1'[ch].cmar = last'.buf
                /\ buffers'[last'.buf] = (IF ch = 5 THEN "MutLocked" ELSE "Locked")]_vars
    /\ [][(last' # last /\ last'.res = "Ok") =>
             dma1'[IF last'.op = "read_exact" THEN 5 ELSE 4].ccr.en = 1]_vars

\* C19 witness: a foreground call has returned Ok; the channel is enabled and
\* the whole transfer is still to be done.
C19_Witness ==
    /\ last.who = "fg" /\ last.res = "Ok" /\ last.op = "read_exact"
    /\ dma1[5].ccr.en = 1
    /\ dma1[5].cndtr = last.buf.len
    /\ dma1[5].cpar = "usart1.rdr"
    /\ dma1[5].cmar = last.buf

\* C20: the two directions use disjoint channels.  The registers of channel 4
\* change only in a step of write_all or of the DMA engine, those of channel 5
\* only in a step of read_exact or of the DMA engine, and a call returns InUse
\* only when the enable bit of its own channel is set.
C20_DisjointChannels ==
    [][/\ \A ch \in Channels :
            dma1'[ch] # dma1[ch] =>
               LET op == IF ch = 5 THEN "read_exact" ELSE "write_all" IN
               \/ fg' # fg /\ fg.op = op
               \/ last' # last /\ last'.op = op /\ last'.who = "isr"
               \/ /\ dma1'[ch].cndtr < dma1[ch].cndtr
                  /\ dma1'[ch] = [dma1[ch] EXCEPT !.cndtr = dma1'[ch].cndtr,
                                                 !.tcif = dma1'[ch].tcif]
       /\ (DmaCallReturned /\ last'.res = "InUse") =>
            dma1[IF last'.op = "read_exact" THEN 5 ELSE 4].ccr.en = 1
       /\ (DmaCallReturned /\ last'.who = "isr" /\ last'.buf.len <= U16Max
             /\ buffers[last'.buf] = "Unlocked"
             /\ dma1[IF last'.op = "read_exact" THEN 5 ELSE 4].ccr.en = 0)
            => last'.res = "Ok"]_vars

\* C20 witness: write_all has started a transfer while the receive channel is
\* busy with a transfer of its own.
C20_Witness ==
    /\ last.op = "write_all" /\ last.res = "Ok"
    /\ dma1[4].ccr.en = 1 /\ dma1[4].cmar = last.buf
    /\ dma1[5].ccr.en = 1 /\ dma1[5].cndtr > 0

(***************************************************************************)
(* Properties of the bring-up.                                             *)
(***************************************************************************)

\* An init / listen / unlisten call returned (or aborted) in this step.
CfgCalled == cfgLast' # cfgLast

SerialInitCalled == CfgCalled /\ cfgLast'.op = "init"

IeBit(cr1, event) ==
    IF event = "Rxne" THEN cr1.rxneie ELSE IF event = "Tc" THEN cr1.tcie ELSE cr1.txeie

\* C12: Serial init enables the DMA request lines (DMAT / DMAR) of the USART
\* only if a DMA handle was passed: after an init without DMA both bits are
\* clear.
C12_DmaLinesOnlyWithDma ==
    (cfgLast.op = "init" /\ cfgLast.res = "Ok" /\ ~cfgLast.dma) =>
        /\ uctl[cfgLast.inst].cr3.dmat = 0
        /\ uctl[cfgLast.inst].cr3.dmar = 0

\* C13: after init completes on a Serial, SPI or Timer handle no
\* interrupt-enable bit of that peripheral is set; for Serial each of the
\* RXNE, TC and TXE interrupt enables is set iff the most recent of init,
\* listen(e), unlisten(e) was listen(e).
C13_NoInterruptUnlessListened ==
    /\ []((timLast.op = "init" /\ timLast.res = "Ok") => tim.dier.uie = 0)
    /\ []((cfgLast.op = "init" /\ cfgLast.res = "Ok") =>
              \A e \in Events : IeBit(uctl[cfgLast.inst].cr1, e) = 0)
    /\ [](cfgLast.op = "spi.init" =>
              (spictl.cr2.txeie = 0 /\ spictl.cr2.rxneie = 0 /\ spictl.cr2.errie = 0))
    /\ [][\A inst \in Usarts, e \in Events :
             IeBit(uctl'[inst].cr1, e) =
                IF CfgCalled /\ cfgLast'.inst = inst /\ cfgLast'.res = "Ok"
                THEN IF cfgLast'.op = "init" THEN 0
                     ELSE IF cfgLast'.event = e
                     THEN (IF cfgLast'.op = "listen" THEN 1 ELSE 0)
                     ELSE IeBit(uctl[inst].cr1, e)
                ELSE IeBit(uctl[inst].cr1, e)]_vars

\* C14: Serial init never completes with a baud divider below 16: for a
\* requested divider below 16 it aborts before the baud-rate register is
\* written and before the USART is enabled, and after an init that returned
\* the programmed divider is at least 16.
C14_DividerAtLeast16 ==
    /\ [][(SerialInitCalled /\ cfgLast'.brr < 16) =>
             /\ cfgLast'.res = "Panic"
             /\ uctl'[cfgLast'.inst].brr = uctl[cfgLast'.inst].brr
             /\ uctl'[cfgLast'.inst].cr1 = uctl[cfgLast'.inst].cr1]_vars
    /\ []((cfgLast.op = "init" /\ cfgLast.res = "Ok") => uctl[cfgLast.inst].brr >= 16)

\* C15: an init that asks for DMA on an instance other than USART1 aborts: it
\* never returns normally, programs no DMA channel register, does not write
\* the baud-rate register and does not enable the USART.
C15_DmaOnOtherInstanceAborts ==
    /\ [][(SerialInitCalled /\ cfgLast'.dma /\ cfgLast'.inst # "Usart1") =>
             /\ cfgLast'.res = "Panic"
             /\ dma1' = dma1
             /\ uctl' = uctl]_vars
    /\ []((cfgLast.op = "init" /\ cfgLast.res = "Ok" /\ cfgLast.dma)
             => cfgLast.inst = "Usart1")

\* C15 witness: init with DMA on USART2 has aborted after USART1 had been
\* brought up with DMA; USART2 is not enabled and its divider not written.
C15_Witness ==
    /\ cfgLast.op = "init" /\ cfgLast.inst = "Usart2" /\ cfgLast.dma
    /\ cfgLast.res = "Panic"
    /\ cfgLast.brr >= 16
    /\ uctl["Usart2"].cr1.ue = 0
    /\ uctl["Usart2"].brr = 0
    /\ uctl["Usart1"].cr1.ue = 1
    /\ dma1[4].ccr.tcie = 1

PollResult(op, sr) ==
    IF sr.ore = 1 THEN "Overrun"
    ELSE IF sr.nf = 1 THEN "Noise"
    ELSE IF sr.fe = 1 THEN "Framing"
    ELSE IF (IF op = "serial.read" THEN sr.rxne ELSE sr.txe) = 1 THEN "Ok"
    ELSE "WouldBlock"

\* C18: listen and unlisten change the interrupt-enable bit of the selected
\* event and nothing else (no other interrupt enable, not UE / RE / TE, no
\* status flag), and the result of read / write is a function of the status
\* snapshot alone, whatever listen / unlisten calls came before.
C18_ListenOrthogonal ==
    [][/\ (CfgCalled /\ cfgLast'.op \in {"listen", "unlisten"}) =>
            LET on == IF cfgLast'.op = "listen" THEN 1 ELSE 0
                old == uctl[cfgLast'.inst].cr1
                new == uctl'[cfgLast'.inst].cr1
            IN  /\ IeBit(new, cfgLast'.event) = on
                /\ \A e \in Events \ {cfgLast'.event} : IeBit(new, e) = IeBit(old, e)
                /\ new.ue = old.ue /\ new.re = old.re /\ new.te = old.te
                /\ \A i \in Usarts :
                      /\ uctl'[i].cr3 = uctl[i].cr3 /\ uctl'[i].brr = uctl[i].brr
                      /\ i # cfgLast'.inst => uctl'[i] = uctl[i]
                /\ usart' = usart /\ ioLast' = ioLast
       /\ (ioLast' # ioLast /\ ioLast'.op \in SerialOps) =>
            /\ ioLast'.res = PollResult(ioLast'.op, usart.isr)
            /\ uctl' = uctl]_vars

\* C18 witness: read returned a byte with the RXNE interrupt enabled and the
\* TXE interrupt switched off again by the call before it.
C18_Witness ==
    /\ ioLast.op = "serial.read" /\ ioLast.res = "Ok"
    /\ cfgLast.op = "unlisten" /\ cfgLast.event = "Txe"
    /\ uctl["Usart1"].cr1.rxneie = 1
    /\ uctl["Usart1"].cr1.tcie = 1
    /\ uctl["Usart1"].cr1.txeie = 0

(***************************************************************************)
(* Further properties of polling.                                          *)
(***************************************************************************)

\* A read / write / send call returned in this step.
Polling == ioLast' # ioLast /\ ioLast'.op \in SerialOps \cup SpiOps

\* The error flags that are set in the status registers.
ErrorFlags(u, s) ==
    {f \in {"ore", "nf", "fe"} : u.isr[f] = 1}
        \cup {f \in {"ovr", "modf", "crcerr"} : s.sr[f] = 1}

C22_EnableOnlyByTransfer ==
    /\ [][\A ch \in Channels :
             (dma1[ch].ccr.en = 0 /\ dma1'[ch].ccr.en = 1) =>
                /\ last'.res = "Ok"
                /\ last'.op = (IF ch = 5 THEN "read_exact" ELSE "write_all")
                /\ cfgLast' = cfgLast /\ ioLast' = ioLast]_vars
    /\ [][(/\ SerialInitCalled /\ cfgLast'.dma /\ cfgLast'.inst = "Usart1"
           /\ cfgLast'.res = "Ok")
             => (dma1'[4].ccr.en = 0 /\ dma1'[5].ccr.en = 0)]_vars
    /\ [][\A ch \in Channels :
             (dma1[ch].ccr.en = 1 /\ dma1'[ch].ccr.en = 0) =>
                /\ cfgLast'.op = "init" /\ cfgLast'.dma /\ cfgLast'.res = "Ok"
                /\ dma1'[4].ccr.en = 0 /\ dma1'[5].ccr.en = 0]_vars
    /\ [][((CfgCalled /\ cfgLast'.op \in {"listen", "unlisten"}) \/ ioLast' # ioLast)
             => dma1' = dma1]_vars

\* C22 witness: an init with DMA has returned while a receive transfer was in
\* flight (its buffer locked, its byte still to come): both channels are
\* disabled.
C22_Witness ==
    /\ cfgLast.op = "init" /\ cfgLast.inst = "Usart1" /\ cfgLast.dma
    /\ cfgLast.res = "Ok"
    /\ last.op = "read_exact" /\ last.res = "Ok"
    /\ buffers[last.buf] = "MutLocked"
    /\ dma1[5].cndtr = 1 /\ dma1[5].cmar = last.buf
    /\ dma1[5].ccr.en = 0 /\ dma1[4].ccr.en = 0

(***************************************************************************)
(* Buffer locks of read_exact / write_all.                                 *)
(***************************************************************************)

IsLocked(bs, b) == bs[b] \in {"Locked", "MutLocked"}

\* C23: a buffer is locked by read_exact / write_all exactly when that call
\* starts a transfer.  In the step in which a call ends: a call that returns
\* Ok has locked its buffer and started the transfer on it; a call that
\* returns InUse changes no lock; and a call that fails (InUse, or an
\* over-long buffer) leaves its buffer locked only if a transfer is started
\* on it or the buffer was locked before the call began.
C23_LockedIffStarted ==
    [][(last' # last) =>
          LET b == last'.buf
              started == dma1'[b.ch].ccr.en = 1 /\ dma1'[b.ch].cmar = b
              lockedBefore == IsLocked(buffers, b)
                                 /\ (last'.who = "isr" \/ fg.pc = "idle")
          IN /\ last'.res = "Ok" => IsLocked(buffers', b)
             /\ last'.res = "InUse" => buffers' = buffers
             /\ (last'.res \in {"InUse", "PanicU16"} /\ IsLocked(buffers', b))
                   => (started \/ lockedBefore)]_vars

\* C23, the part the code keeps: a call that returns InUse changes no lock,
\* and a call that returns Ok holds the lock on its buffer.
C23_InUseLeavesLock ==
    [][(last' # last) =>
          /\ last'.res = "InUse" => buffers' = buffers
          /\ last'.res = "Ok" => IsLocked(buffers', last'.buf)]_vars

====
